---- MODULE Spec2Model ----
(***************************************************************************)
(* Model of the chat core of the marketplace backend: the ChatRoom and     *)
(* Message tables, the get-or-create room view, the message history view,  *)
(* the unread counter and the websocket consumer (ChatConsumer) with the   *)
(* channel layer's groups and per-channel queues.                          *)
(*                                                                         *)
(* A consumer handles one thing at a time.  A handler that awaits a        *)
(* persistence call and then awaits group_send is two steps: the           *)
(* persistence step leaves the event to send in pending[c], and GroupSend  *)
(* sends it.  Other connections and HTTP requests interleave between.      *)
(***************************************************************************)
EXTENDS Integers, Sequences, FiniteSets, TLC

VARIABLES users, books, favorites, nextFavId, rooms, nextRoomId, messages, nextMsgId, clock,
          conn, nextConn, groups, inbox, pending, task, ops, last

vars == <<users, books, favorites, nextFavId, rooms, nextRoomId, messages, nextMsgId, clock,
          conn, nextConn, groups, inbox, pending, task, ops, last>>

(* ------------------------------ bounds -------------------------------- *)

\* What clients do in one run: handshakes, frames, closes and
\* message-history requests.
MaxOps == 4
\* Websocket connections opened in one run.
MaxConns == 2
\* Messages persisted in one run.
MaxMsgs == 2
\* Concurrent HTTP workers posting to rooms/create/.
MaxTasks == 3

(* ------------------------------ universe ------------------------------ *)

\* scope['user'] of an unauthenticated handshake (AnonymousUser).
Anonymous == 0
Users == {1, 2, 3}
\* Book 1 exists and is written by user 1; book 2 does not exist; 0 is a
\* request without book_id.
BookIdSpace == {0, 1, 2}
InitBooks == {[id |-> 1, writer |-> 1, title |-> <<"a">>]}
\* 'title' of an update of a book.
Titles == { <<"b">> }
\* chatroom_id values a URL can carry: the ids of the two buyers' rooms and
\* one id no room has.
RoomIdSpace == 1 .. Cardinality(Users)
Handles == 1 .. MaxConns
Tasks == 1 .. MaxTasks
MsgIdSpace == 1 .. MaxMsgs
\* 'content' of a message frame: a string as a sequence of characters.
Contents == { <<>>, <<" ">>, <<" ", "h", " ">> }
Whitespace == {" "}

(* ------------------------------ records ------------------------------- *)

NoMsg == [id |-> 0, content |-> <<>>, sender_id |-> 0, created_at |-> 0, is_read |-> FALSE]

\* A channel-layer event.  origin is the sending channel (channel_name of the
\* consumer that called group_send); the code does not carry it in the event.
Event(type, user, origin, message, ids, typing) ==
    [type |-> type, user_id |-> user, origin |-> origin, message |-> message,
     message_ids |-> ids, is_typing |-> typing]
NoEvent == Event("none", 0, 0, NoMsg, {}, FALSE)

\* A frame the consumer sends to its client.
Frame(type, user, message, ids, typing) ==
    [type |-> type, user |-> user, message |-> message, message_ids |-> ids,
     is_typing |-> typing]
NoFrame == Frame("none", 0, NoMsg, {}, FALSE)

\* A frame a client sends: json with type, content, message_ids, is_typing.
Data(type, content, ids, typing) ==
    [type |-> type, content |-> content, message_ids |-> ids, is_typing |-> typing]
NoData == Data("none", <<>>, {}, FALSE)

NoPending == [ev |-> NoEvent, affected |-> {}]

\* An HTTP worker: where it is in its view, the request (user, book), what
\* it has looked up (seller of the book; fav, the id of the favorite found)
\* and what it answers (room, like_count, status).
IdleTask == [pc |-> "idle", user |-> 0, book |-> 0, seller |-> 0, room |-> 0, fav |-> 0,
             like_count |-> 0, status |-> 0]

\* An unread count without the exclude(sender=request.user).
UnreadCountWithOwn(user) ==
    Cardinality({jr \in messages \X rooms :
                    /\ jr[1].chatroom = jr[2].id
                    /\ (jr[2].buyer = user \/ jr[2].seller = user)
                    /\ jr[1].is_read = FALSE})

\* UnreadCountView.get: COUNT over Message joined with its ChatRoom.
UnreadCount(user) ==
    Cardinality({jr \in messages \X rooms :
                    /\ jr[1].chatroom = jr[2].id
                    /\ (jr[2].buyer = user \/ jr[2].seller = user)
                    /\ jr[1].is_read = FALSE
                    /\ ~(jr[1].sender = user)})

\* What the step just taken changed, read off the two states of the step:
\* message ids created, removed, marked read, turned back to unread or
\* otherwise rewritten; ids of rooms whose row changed; the (room, channel)
\* pairs added to and removed from groups; the channels whose queue got an
\* event; by how much each user's unread count changed; the ids of books
\* whose row changed; the ids of favorites created and deleted.
Delta ==
    [created  |-> {m.id : m \in messages'} \ {m.id : m \in messages},
     removed  |-> {m.id : m \in messages} \ {m.id : m \in messages'},
     lost     |-> {m.id : m \in {x \in messages : /\ \A y \in messages' : y.id # x.id
                                                  /\ \E r \in rooms' : r.id = x.chatroom}},
     marked   |-> {m.id : m \in {x \in messages : ~x.is_read
                       /\ \E y \in messages' : y.id = x.id /\ y.is_read}},
     reverted |-> {m.id : m \in {x \in messages : x.is_read
                       /\ \E y \in messages' : y.id = x.id /\ ~y.is_read}},
     edited   |-> {m.id : m \in {x \in messages :
                       \E y \in messages' : y.id = x.id
                           /\ [y EXCEPT !.is_read = x.is_read] # x}},
     rooms    |-> {r.id : r \in (rooms' \ rooms) \cup (rooms \ rooms')},
     joined   |-> {q \in (DOMAIN groups) \X (DOMAIN conn) : q[2] \in groups'[q[1]] \ groups[q[1]]},
     left     |-> {q \in (DOMAIN groups) \X (DOMAIN conn) : q[2] \in groups[q[1]] \ groups'[q[1]]},
     queued   |-> {c \in DOMAIN inbox : Len(inbox'[c]) > Len(inbox[c])},
     unread   |-> [u \in Users |-> UnreadCount(u)' - UnreadCount(u)],
     books    |-> {k.id : k \in (books' \ books) \cup (books \ books')},
     liked    |-> {f.id : f \in favorites' \ favorites},
     unliked  |-> {f.id : f \in favorites \ favorites'}]

NoDelta == [created |-> {}, removed |-> {}, lost |-> {}, marked |-> {}, reverted |-> {}, edited |-> {},
            rooms |-> {}, joined |-> {}, left |-> {}, queued |-> {},
            unread |-> [u \in Users |-> 0], books |-> {}, liked |-> {}, unliked |-> {}]

\* The last step taken: which operation, by which connection (for an HTTP
\* view run by a worker, which worker) and user, on
\* which room (for a books/ view, which book), with which input (data: the
\* client's frame or request body; ev: the
\* channel-layer event sent or handled), what it answered (frame: what was
\* written to the client's socket; status), for a group_send the message
\* ids its handler's persistence call had selected (wrote), and what the
\* step changed (d).
Last(op, c, user, room, data, ev, frame, status, wrote, d) ==
    [op |-> op, conn |-> c, user |-> user, room |-> room, data |-> data, ev |-> ev,
     frame |-> frame, status |-> status, wrote |-> wrote, d |-> d]

(* --------------------------- pure functions --------------------------- *)

RECURSIVE lstrip(_)
lstrip(s) ==
    IF s = <<>> THEN <<>>
    ELSE IF Head(s) \in Whitespace THEN lstrip(Tail(s)) ELSE s

RECURSIVE rstrip(_)
rstrip(s) ==
    IF s = <<>> THEN <<>>
    ELSE IF s[Len(s)] \in Whitespace THEN rstrip(SubSeq(s, 1, Len(s) - 1)) ELSE s

\* A receive() that does not trim: content is taken as sent.
no_strip(s) == s

\* str.strip()
strip(s) == rstrip(lstrip(s))

RoomById(rid) == CHOOSE r \in rooms : r.id = rid
RoomExists(rid) == \E r \in rooms : r.id = rid

\* An is_participant that lets every user through.
is_participant_anyone(room, user) == TRUE

\* ChatRoom.is_participant
is_participant(room, user) == user = room.buyer \/ user = room.seller

\* A check_permission that lets a handshake for a missing room through.
check_permission_missing_room(chatroom_id, user) ==
    IF RoomExists(chatroom_id) THEN is_participant(RoomById(chatroom_id), user)
    ELSE TRUE

\* ChatConsumer.check_permission: False when the room does not exist.
check_permission(chatroom_id, user) ==
    IF RoomExists(chatroom_id) THEN is_participant(RoomById(chatroom_id), user)
    ELSE FALSE

\* Message.objects.create(chatroom, sender, content): is_read defaults to False.
NewMessage(id, chatroom_id, user, content, now) ==
    [id |-> id, chatroom |-> chatroom_id, sender |-> user, content |-> content,
     is_read |-> FALSE, created_at |-> now]

\* A ChatRoom.objects.get() that never raises.
DoesNotExistNever(chatroom_id) == FALSE

\* ChatRoom.objects.get(id=chatroom_id) in save_message raises DoesNotExist.
DoesNotExist(chatroom_id) == ~RoomExists(chatroom_id)

\* A save_message that builds the Message and never writes it.
save_message_unsaved(id, chatroom_id, user, content, now) == messages

\* ChatConsumer.save_message: the rows of Message after the insert.
save_message(id, chatroom_id, user, content, now) ==
    messages \cup {NewMessage(id, chatroom_id, user, content, now)}

\* A save_message without chatroom.save().
TouchRoomNever(chatroom_id, now) == rooms

\* chatroom.save(): auto_now refreshes updated_at.
TouchRoom(chatroom_id, now) ==
    {IF r.id = chatroom_id THEN [r EXCEPT !.updated_at = now] ELSE r : r \in rooms}

\* The rows the filter/exclude of mark_messages_as_read selects.
ReadTargets(msgs, message_ids, chatroom_id, user) ==
    {m \in msgs : m.id \in message_ids /\ m.chatroom = chatroom_id /\ m.sender # user}

\* mark_messages_as_read without the exclude(sender=self.user).
mark_messages_with_own(msgs, message_ids, chatroom_id, user) ==
    {IF m.id \in message_ids /\ m.chatroom = chatroom_id
        THEN [m EXCEPT !.is_read = TRUE] ELSE m : m \in msgs}

\* mark_messages_as_read without the filter(chatroom_id=self.chatroom_id).
mark_messages_any_room(msgs, message_ids, chatroom_id, user) ==
    {IF m.id \in message_ids /\ m.sender # user
        THEN [m EXCEPT !.is_read = TRUE] ELSE m : m \in msgs}

\* mark_messages_as_read that flips the flag instead of setting it.
mark_messages_toggle(msgs, message_ids, chatroom_id, user) ==
    {IF m \in ReadTargets(msgs, message_ids, chatroom_id, user)
        THEN [m EXCEPT !.is_read = ~m.is_read] ELSE m : m \in msgs}

\* ChatConsumer.mark_messages_as_read: UPDATE ... SET is_read = True.
mark_messages_as_read(msgs, message_ids, chatroom_id, user) ==
    {IF m \in ReadTargets(msgs, message_ids, chatroom_id, user)
        THEN [m EXCEPT !.is_read = TRUE] ELSE m : m \in msgs}

\* A history request whose update lost the filter(is_read=False) and flips
\* the flag of every message of the other participant.
MarkAllFlipped(msgs, chatroom_id, user) ==
    {IF m.chatroom = chatroom_id /\ m.sender # user
        THEN [m EXCEPT !.is_read = ~m.is_read] ELSE m : m \in msgs}

\* A history request whose update lost the exclude(sender=request.user).
MarkAllWithOwn(msgs, chatroom_id, user) ==
    {IF m.chatroom = chatroom_id /\ ~m.is_read
        THEN [m EXCEPT !.is_read = TRUE] ELSE m : m \in msgs}

\* MessageListView.get: chatroom.messages.filter(is_read=False)
\* .exclude(sender=request.user).update(is_read=True)
MarkAllUnreadAsRead(msgs, chatroom_id, user) ==
    {IF m.chatroom = chatroom_id /\ ~m.is_read /\ m.sender # user
        THEN [m EXCEPT !.is_read = TRUE] ELSE m : m \in msgs}

\* channel_layer.group_send: the event is put on the queue of every channel
\* of the group.  A channel whose consumer is gone keeps no queue here: what
\* is sent to it is never read.
Alive(c) == conn[c].state = "Active"

\* A group_send that reaches every running channel, of whatever group.
group_send_everyone(group, ev) ==
    [c \in Handles |-> IF Alive(c) THEN Append(inbox[c], ev) ELSE inbox[c]]

\* A group_send that leaves out the sending channel.
group_send_others(group, ev) ==
    [c \in Handles |-> IF c \in group /\ Alive(c) /\ c # ev.origin
                          THEN Append(inbox[c], ev) ELSE inbox[c]]

group_send(group, ev) ==
    [c \in Handles |-> IF c \in group /\ Alive(c) THEN Append(inbox[c], ev) ELSE inbox[c]]

\* A group_discard that empties the group when the channel is not in it.
group_discard_absent_clears(chatroom_id, c) ==
    [groups EXCEPT ![chatroom_id] = IF c \in @ THEN @ \ {c} ELSE {}]

\* channel_layer.group_add / group_discard on the group chat_<chatroom_id>;
\* discarding a channel that is not in the group does nothing.
group_add(chatroom_id, c) == [groups EXCEPT ![chatroom_id] = @ \cup {c}]
group_discard(chatroom_id, c) == [groups EXCEPT ![chatroom_id] = @ \ {c}]

\* The event of receive() for a saved message.
ChatMessageEvent(c, m) ==
    Event("chat_message", m.sender, c,
          [id |-> m.id, content |-> m.content, sender_id |-> m.sender,
           created_at |-> m.created_at, is_read |-> m.is_read], {}, FALSE)

\* The names of the handlers ChatConsumer defines for channel-layer events.
Handlers == {"chat_message", "messages_read", "user_typing", "user_join"}

\* What a handler sends to the client for an event, NoFrame when it sends
\* nothing.
chat_message(c, ev) == Frame("message", 0, ev.message, {}, FALSE)
messages_read(c, ev) == Frame("read", ev.user_id, NoMsg, ev.message_ids, FALSE)
\* A user_typing without the check of the sender.
user_typing_echo(c, ev) == Frame("typing", ev.user_id, NoMsg, {}, ev.is_typing)

user_typing(c, ev) ==
    IF ev.user_id # conn[c].user
    THEN Frame("typing", ev.user_id, NoMsg, {}, ev.is_typing) ELSE NoFrame

\* A user_join without the check of the sender.
user_join_echo(c, ev) == Frame("user_join", ev.user_id, NoMsg, {}, FALSE)

user_join(c, ev) ==
    IF ev.user_id # conn[c].user
    THEN Frame("user_join", ev.user_id, NoMsg, {}, FALSE) ELSE NoFrame

HandlerFrame(c, ev) ==
    CASE ev.type = "chat_message" -> chat_message(c, ev)
      [] ev.type = "messages_read" -> messages_read(c, ev)
      [] ev.type = "user_typing" -> user_typing(c, ev)
      [] ev.type = "user_join" -> user_join(c, ev)
      [] OTHER -> NoFrame

\* Whom a request can be authenticated as: a user that has a row, or nobody.
Callers == users \cup {Anonymous}

(* ------------------------------- Init --------------------------------- *)

\* The store before any room exists: the start of the rooms/create/ workers.
InitRooms ==
    /\ users = Users
    /\ books = InitBooks
    /\ favorites = {}
    /\ nextFavId = 1
    /\ rooms = {}
    /\ nextRoomId = 1
    /\ messages = {}
    /\ nextMsgId = 1
    /\ clock = 1
    /\ conn = [c \in Handles |-> [state |-> "Free", user |-> 0, room |-> 0]]
    /\ nextConn = 1
    /\ groups = [r \in RoomIdSpace |-> {}]
    /\ inbox = [c \in Handles |-> <<>>]
    /\ pending = [c \in Handles |-> NoPending]
    /\ task = [t \in Tasks |-> IdleTask]
    /\ ops = 0
    /\ last = Last("init", 0, 0, 0, NoData, NoEvent, NoFrame, 0, {}, NoDelta)

\* The rooms once buyer 2 and then buyer 3 have each posted book 1 to
\* rooms/create/ (the store SpecRooms reaches by these two requests).
InitialRooms ==
    {[id |-> 1, book |-> 1, buyer |-> 2, seller |-> 1, created_at |-> 1, updated_at |-> 1],
     [id |-> 2, book |-> 1, buyer |-> 3, seller |-> 1, created_at |-> 2, updated_at |-> 2]}

\* The start of the chat: both rooms exist, nobody is connected, no message.
Init ==
    /\ users = Users
    /\ books = InitBooks
    /\ favorites = {}
    /\ nextFavId = 1
    /\ rooms = InitialRooms
    /\ nextRoomId = 3
    /\ messages = {}
    /\ nextMsgId = 1
    /\ clock = 3
    /\ conn = [c \in Handles |-> [state |-> "Free", user |-> 0, room |-> 0]]
    /\ nextConn = 1
    /\ groups = [r \in RoomIdSpace |-> {}]
    /\ inbox = [c \in Handles |-> <<>>]
    /\ pending = [c \in Handles |-> NoPending]
    /\ task = [t \in Tasks |-> IdleTask]
    /\ ops = 0
    /\ last = Last("init", 0, 0, 0, NoData, NoEvent, NoFrame, 0, {}, NoDelta)

(* ------------------------ rooms/create/ (HTTP) ------------------------ *)

\* A lookup by the wrong column: the rows with the user as seller.
MatchingBySeller(rs, book, buyer) == {r \in rs : r.book = book /\ r.seller = buyer}

\* The rows ChatRoom.objects.get(book=book, buyer=user) looks at.
Matching(rs, book, buyer) == {r \in rs : r.book = book /\ r.buyer = buyer}

\* ChatRoom without unique_together: every insert goes through.
NoUniqueTogether(rs, book, buyer) == TRUE

\* unique_together = ("book", "buyer"): may a row for the pair be inserted?
UniqueTogether(rs, book, buyer) == Matching(rs, book, buyer) = {}

\* A get_or_create whose defaults name the caller as seller.
NewRoomSellerIsCaller(id, book, buyer, seller, now) ==
    [id |-> id, book |-> book, buyer |-> buyer, seller |-> buyer,
     created_at |-> now, updated_at |-> now]

NewRoom(id, book, buyer, seller, now) ==
    [id |-> id, book |-> book, buyer |-> buyer, seller |-> seller,
     created_at |-> now, updated_at |-> now]

BookExists(b) == \E k \in books : k.id = b
BookById(b) == CHOOSE k \in books : k.id = b

\* A post() without the check of the book's writer.
IsOwnBookNever(b, u) == FALSE

\* post(): book.writer == request.user
IsOwnBook(b, u) == BookById(b).writer = u

Response(t, u, b, seller, rid, status) ==
    [pc |-> "done", user |-> u, book |-> b, seller |-> seller, room |-> rid, fav |-> 0,
     like_count |-> 0, status |-> status]

\* ChatRoomCreateOrGetView.post up to the first get() of get_or_create.
\* Workers are taken in order: which idle worker serves a request is not
\* observable.
PostStart(t, u, b) ==
    /\ u \in users
    /\ task[t].pc = "idle"
    /\ \A t2 \in Tasks : t2 < t => task[t2].pc # "idle"
    /\ LET found == Matching(rooms, b, u)
           res ==
             IF b = 0 THEN Response(t, u, b, 0, 0, 400)
             ELSE IF ~BookExists(b) THEN Response(t, u, b, 0, 0, 404)
             ELSE IF IsOwnBook(b, u) THEN Response(t, u, b, 0, 0, 400)
             ELSE IF Cardinality(found) = 1
               THEN Response(t, u, b, BookById(b).writer, (CHOOSE r \in found : TRUE).id, 200)
             ELSE IF Cardinality(found) > 1
               \* get() raises MultipleObjectsReturned
               THEN Response(t, u, b, BookById(b).writer, 0, 500)
             ELSE [pc |-> "create", user |-> u, book |-> b, seller |-> BookById(b).writer,
                   room |-> 0, fav |-> 0, like_count |-> 0, status |-> 0]
       IN /\ task' = [task EXCEPT ![t] = res]
          /\ UNCHANGED <<users, books, favorites, nextFavId, rooms, nextRoomId, messages, nextMsgId, clock,
                         conn, nextConn, groups, inbox, pending, ops>>
          /\ last' = Last("post", t, u, res.room, NoData, NoEvent, NoFrame, res.status, {}, Delta)

\* The create() of get_or_create after get() found nothing: the insert, and
\* on IntegrityError the second get().
PostCreate(t) ==
    /\ task[t].pc = "create"
    /\ LET me == task[t]
           again == Matching(rooms, me.book, me.user)
           res ==
             IF UniqueTogether(rooms, me.book, me.user)
               THEN Response(t, me.user, me.book, me.seller, nextRoomId, 201)
             ELSE IF Cardinality(again) = 1
               THEN Response(t, me.user, me.book, me.seller, (CHOOSE r \in again : TRUE).id, 200)
             ELSE Response(t, me.user, me.book, me.seller, 0, 500)
       IN /\ IF res.status = 201
             THEN /\ rooms' = rooms \cup {NewRoom(nextRoomId, me.book, me.user, me.seller, clock)}
                  /\ nextRoomId' = nextRoomId + 1
                  /\ clock' = clock + 1
             ELSE UNCHANGED <<rooms, nextRoomId, clock>>
          /\ task' = [task EXCEPT ![t] = res]
          /\ UNCHANGED <<users, books, favorites, nextFavId, messages, nextMsgId, conn, nextConn, groups, inbox,
                         pending, ops>>
          /\ last' = Last("post_create", t, me.user, res.room, NoData, NoEvent, NoFrame,
                          res.status, {}, Delta)

(* --------------------------- rooms/ (HTTP) ---------------------------- *)

\* ChatRoom.get_other_user
get_other_user(room, user) == IF user = room.buyer THEN room.seller ELSE room.buyer

\* An order_by('updated_at'): oldest first.
RECURSIVE OrderByUpdatedAtAsc(_)
OrderByUpdatedAtAsc(rs) ==
    IF rs = {} THEN <<>>
    ELSE LET first == CHOOSE r \in rs : \A o \in rs : o.updated_at >= r.updated_at
         IN <<first>> \o OrderByUpdatedAtAsc(rs \ {first})

\* order_by('-updated_at'): the rows as a list, latest first.
RECURSIVE OrderByUpdatedAtDesc(_)
OrderByUpdatedAtDesc(rs) ==
    IF rs = {} THEN <<>>
    ELSE LET first == CHOOSE r \in rs : \A o \in rs : o.updated_at <= r.updated_at
         IN <<first>> \o OrderByUpdatedAtDesc(rs \ {first})

\* A get_unread_count without the exclude(sender=request.user).
RoomUnreadCountWithOwn(room, user) ==
    Cardinality({m \in messages : m.chatroom = room.id /\ ~m.is_read})

\* ChatRoomListSerializer.get_unread_count
RoomUnreadCount(room, user) ==
    Cardinality({m \in messages : m.chatroom = room.id /\ ~m.is_read /\ m.sender # user})

\* ChatRoomListView.get: what the list answers for an authenticated user.
ChatRoomList(user) ==
    LET mine == OrderByUpdatedAtDesc({r \in rooms : r.buyer = user \/ r.seller = user})
    IN [i \in 1 .. Len(mine) |->
          [id |-> mine[i].id, other_user |-> get_other_user(mine[i], user),
           unread_count |-> RoomUnreadCount(mine[i], user),
           updated_at |-> mine[i].updated_at]]

(* ----------------------- books/update/ (HTTP) ------------------------- *)

\* The attributes of a Book the permission classes can look for.
BookAttrs == {"id", "writer", "title"}
SafeMethods == {"GET", "HEAD", "OPTIONS"}

\* IsOwnerOrReadOnly.has_object_permission on a Book: the owner is looked up
\* as obj.user, an attribute Book does not have (its owner is writer).
IsOwnerOrReadOnly(book, u, method) ==
    IF method \in SafeMethods
    THEN IF "is_public" \in BookAttrs /\ book.is_public THEN TRUE
         ELSE IF "user" \in BookAttrs THEN book.user = u
         ELSE TRUE
    ELSE IF "user" \in BookAttrs THEN book.user = u
    ELSE FALSE

\* BookSerializer.Meta.read_only_fields
ReadOnlyFields == {"writer"}

\* serializer.save() of a partial update that names a writer.
PatchBook(book, data) ==
    [book EXCEPT !.writer = IF "writer" \in ReadOnlyFields THEN @ ELSE data.writer,
                 !.title = IF "title" \in ReadOnlyFields THEN @ ELSE data.content]

\* The body of a PATCH: a title and a writer.
PatchData(title, writer) ==
    [type |-> "patch", content |-> title, message_ids |-> {}, is_typing |-> FALSE,
     writer |-> writer]
\* The bodies tried: a new title, and as writer a user who is not the
\* book's writer.
PatchBodies == {PatchData(t, w) : t \in Titles, w \in {2}}

\* BookUpdateView.patch of book b by user u with the body data.
BookUpdate(u, b, data) ==
    /\ u \in users
    /\ LET status == IF ~BookExists(b) THEN 404
                     ELSE IF ~IsOwnerOrReadOnly(BookById(b), u, "PATCH") THEN 403
                     ELSE 200
       IN /\ books' = IF status = 200
                      THEN {IF k.id = b THEN PatchBook(k, data) ELSE k : k \in books}
                      ELSE books
          /\ UNCHANGED <<users, favorites, nextFavId, rooms, nextRoomId, messages, nextMsgId, clock,
                         conn, nextConn, groups, inbox, pending, task, ops>>
          /\ last' = Last("book_update", 0, u, b, data, NoEvent, NoFrame, status, {}, Delta)

(* --------------------- rooms/<id>/messages/ (HTTP) -------------------- *)

\* An ordering = ["-created_at"]: newest first.
RECURSIVE OrderByCreatedAtDesc(_)
OrderByCreatedAtDesc(ms) ==
    IF ms = {} THEN <<>>
    ELSE LET first == CHOOSE m \in ms : \A o \in ms : o.created_at <= m.created_at
         IN <<first>> \o OrderByCreatedAtDesc(ms \ {first})

\* Message.Meta.ordering = ["created_at"]: the rows as a list, oldest first.
RECURSIVE OrderByCreatedAt(_)
OrderByCreatedAt(ms) ==
    IF ms = {} THEN <<>>
    ELSE LET first == CHOOSE m \in ms : \A o \in ms : o.created_at >= m.created_at
         IN <<first>> \o OrderByCreatedAt(ms \ {first})

\* chatroom.messages.all() as MessageListView.get serializes it.
MessageHistory(chatroom_id) ==
    OrderByCreatedAt({m \in messages : m.chatroom = chatroom_id})

\* MessageListView.get by an authenticated user.
MessageList(u, rid) ==
    /\ u \in users
    /\ ops < MaxOps
    /\ ops' = ops + 1
    /\ LET status == IF ~RoomExists(rid) THEN 404
                     ELSE IF ~is_participant(RoomById(rid), u) THEN 403
                     ELSE 200
       IN /\ messages' = IF status = 200 THEN MarkAllUnreadAsRead(messages, rid, u)
                         ELSE messages
          /\ UNCHANGED <<users, books, favorites, nextFavId, rooms, nextRoomId, nextMsgId, clock,
                         conn, nextConn, groups, inbox, pending, task>>
          /\ last' = Last("message_list", 0, u, rid, NoData, NoEvent, NoFrame, status, {}, Delta)

(* ---------------------- websocket: ChatConsumer ------------------------ *)

\* A message frame that also names a sender and a room; receive() reads
\* 'type' and 'content' of a message frame and nothing else.
ForgedFrames ==
    {[type |-> "message", content |-> <<"h">>, message_ids |-> {}, is_typing |-> FALSE,
      sender_id |-> 3, chatroom_id |-> 2]}

\* Frames a client can send.  A frame without 'type' is a message frame
\* (data.get('type', 'message')).
ClientFrames ==
    {Data("message", ct, {}, FALSE) : ct \in Contents}
      \cup {Data("absent", <<" ", "h", " ">>, {}, FALSE)}
      \cup {Data("read", <<>>, ids, FALSE) : ids \in SUBSET MsgIdSpace}
      \cup {Data("typing", <<>>, {}, b) : b \in BOOLEAN}
      \cup {Data("ping", <<>>, {}, FALSE)}
      \cup ForgedFrames

\* A receive() whose last branch is an else: every other type is typing.
MessageTypeElseTyping(data) ==
    IF data.type \in {"absent", "message"} THEN "message"
    ELSE IF data.type = "read" THEN "read" ELSE "typing"

\* message_type = data.get('type', 'message')
MessageType(data) == IF data.type = "absent" THEN "message" ELSE data.type

\* ChatConsumer.connect up to accept(): the handshake of user u for the room
\* id of the URL.  A refused handshake is closed before accept(), and the
\* server then runs disconnect() for it.
Connect(u, rid) ==
    /\ u \in Callers
    /\ ops < MaxOps
    /\ ops' = ops + 1
    /\ nextConn <= MaxConns
    /\ nextConn' = nextConn + 1
    /\ LET c == nextConn
           ok == u # Anonymous /\ check_permission(rid, u)
       IN /\ conn' = [conn EXCEPT ![c] =
                        IF ok THEN [state |-> "Active", user |-> u, room |-> rid]
                        ELSE [state |-> "Closed", user |-> 0, room |-> 0]]
          /\ groups' = IF ok THEN group_add(rid, c) ELSE group_discard(rid, c)
          /\ pending' = IF ok
                        THEN [pending EXCEPT ![c] =
                                [ev |-> Event("user_join", u, c, NoMsg, {}, FALSE),
                                 affected |-> {}]]
                        ELSE pending
          /\ UNCHANGED <<users, books, favorites, nextFavId, rooms, nextRoomId, messages, nextMsgId, clock, inbox, task>>
          /\ last' = Last("connect", c, u, rid, NoData, NoEvent, NoFrame,
                          IF ok THEN 101 ELSE 403, {}, Delta)

\* The group_send a handler awaits after its persistence call (and connect
\* after accept()).
GroupSend(c) ==
    /\ conn[c].state = "Active"
    /\ pending[c].ev # NoEvent
    /\ inbox' = group_send(groups[conn[c].room], pending[c].ev)
    /\ pending' = [pending EXCEPT ![c] = NoPending]
    /\ UNCHANGED <<users, books, favorites, nextFavId, rooms, nextRoomId, messages, nextMsgId, clock,
                   conn, nextConn, groups, task, ops>>
    /\ last' = Last("group_send", c, conn[c].user, conn[c].room, NoData, pending[c].ev,
                    NoFrame, 0, pending[c].affected, Delta)

\* A save_message that stores the message under the sender the frame names.
MessageSenderFromFrame(c, data) ==
    IF "sender_id" \in DOMAIN data THEN data.sender_id ELSE conn[c].user

\* sender=self.user in save_message: the user of the connection's scope,
\* whatever the frame holds.
MessageSender(c, data) == conn[c].user

\* receive() of a message frame with content: save_message, then the event.
ReceiveMessage(c, data, content) ==
    LET u == MessageSender(c, data)
        rid == conn[c].room
    IN /\ nextMsgId <= MaxMsgs
       /\ IF ~DoesNotExist(rid)
          THEN /\ messages' = save_message(nextMsgId, rid, u, content, clock)
               /\ rooms' = TouchRoom(rid, clock)
               /\ nextMsgId' = nextMsgId + 1
               /\ clock' = clock + 1
               /\ pending' = [pending EXCEPT ![c] =
                    [ev |-> ChatMessageEvent(c, NewMessage(nextMsgId, rid, u, content, clock)),
                     affected |-> {nextMsgId}]]
               /\ UNCHANGED <<inbox, conn>>
          ELSE \* ChatRoom.DoesNotExist is not caught: the consumer dies
               /\ conn' = [conn EXCEPT ![c].state = "Crashed"]
               /\ inbox' = [inbox EXCEPT ![c] = <<>>]
               /\ UNCHANGED <<messages, nextMsgId, rooms, clock, pending>>

\* receive() of a read frame: mark_messages_as_read, then the event.
ReceiveRead(c, message_ids) ==
    LET u == conn[c].user
        rid == conn[c].room
    IN /\ messages' = mark_messages_as_read(messages, message_ids, rid, u)
       /\ pending' = [pending EXCEPT ![c] =
            [ev |-> Event("message_read", u, c, NoMsg, message_ids, FALSE),
             affected |-> {m.id : m \in ReadTargets(messages, message_ids, rid, u)}]]
       /\ UNCHANGED <<nextMsgId, rooms, clock, inbox, conn>>

TypingEvent(c, data) == Event("user_typing", conn[c].user, c, NoMsg, {}, data.is_typing)

\* ChatConsumer.receive of one client frame, up to its first group_send.
Receive(c, data) ==
    /\ ops < MaxOps
    /\ ops' = ops + 1
    /\ conn[c].state = "Active"
    /\ pending[c].ev = NoEvent
    /\ LET content == strip(data.content)
       IN CASE MessageType(data) = "message" /\ content # <<>> -> ReceiveMessage(c, data, content)
            [] MessageType(data) = "read" -> ReceiveRead(c, data.message_ids)
            [] MessageType(data) = "typing" ->
                 /\ inbox' = group_send(groups[conn[c].room], TypingEvent(c, data))
                 /\ UNCHANGED <<messages, nextMsgId, rooms, clock, pending, conn>>
            [] OTHER ->
                 UNCHANGED <<messages, nextMsgId, rooms, clock, pending, inbox, conn>>
    /\ UNCHANGED <<users, books, favorites, nextFavId, nextRoomId, nextConn, groups, task>>
    /\ last' = Last("receive", c, conn[c].user, conn[c].room, data,
                    IF MessageType(data) = "typing" THEN TypingEvent(c, data) ELSE NoEvent,
                    NoFrame, IF conn'[c].state = "Crashed" THEN 500 ELSE 0, {}, Delta)

\* The consumer takes the next event of its channel and dispatches it to the
\* handler named by the event's type.  With no such handler dispatch raises
\* ValueError and the consumer ends without disconnect() being called.
Dispatch(c) ==
    /\ conn[c].state = "Active"
    /\ pending[c].ev = NoEvent
    /\ inbox[c] # <<>>
    /\ LET ev == Head(inbox[c])
           handled == ev.type \in Handlers
       IN /\ conn' = IF handled THEN conn ELSE [conn EXCEPT ![c].state = "Crashed"]
          /\ inbox' = [inbox EXCEPT ![c] = IF handled THEN Tail(@) ELSE <<>>]
          /\ UNCHANGED <<users, books, favorites, nextFavId, rooms, nextRoomId, messages, nextMsgId, clock,
                         nextConn, groups, pending, task, ops>>
          /\ last' = Last("dispatch", c, conn[c].user, conn[c].room, NoData, ev,
                          IF handled THEN HandlerFrame(c, ev) ELSE NoFrame,
                          IF handled THEN 0 ELSE 500, {}, Delta)

\* ChatConsumer.disconnect when the client closes.
Disconnect(c) ==
    /\ ops < MaxOps
    /\ ops' = ops + 1
    /\ conn[c].state = "Active"
    /\ pending[c].ev = NoEvent
    /\ groups' = group_discard(conn[c].room, c)
    /\ conn' = [conn EXCEPT ![c] = [state |-> "Closed", user |-> 0, room |-> 0]]
    /\ inbox' = [inbox EXCEPT ![c] = <<>>]
    /\ UNCHANGED <<users, books, favorites, nextFavId, rooms, nextRoomId, messages, nextMsgId, clock,
                   nextConn, pending, task>>
    /\ last' = Last("disconnect", c, conn[c].user, conn[c].room, NoData, NoEvent, NoFrame,
                    0, {}, Delta)

(* ------------------------------- Next --------------------------------- *)

\* Who asks for which room: each participant for the own rooms, and one case
\* of each refusal (not a participant, twice; no such room; not logged in).
Requests ==
    {<<1, 1>>, <<1, 2>>, <<2, 1>>, <<3, 2>>, <<3, 1>>, <<2, 2>>, <<1, 3>>}
Handshakes == Requests \cup {<<Anonymous, 1>>}

NextRooms ==
    \/ \E t \in Tasks, u \in Users, b \in BookIdSpace : PostStart(t, u, b)
    \/ \E t \in Tasks : PostCreate(t)
    \/ \E u \in Users, b \in BookIdSpace \ {0}, data \in PatchBodies : BookUpdate(u, b, data)

\* The rooms/create/ workers and updates of the book, from the empty store.
SpecRooms == InitRooms /\ [][NextRooms]_vars

Next ==
    \/ \E q \in Requests : MessageList(q[1], q[2])
    \/ \E q \in Handshakes : Connect(q[1], q[2])
    \/ \E c \in Handles : GroupSend(c)
    \/ \E c \in Handles, data \in ClientFrames : Receive(c, data)
    \/ \E c \in Handles : Dispatch(c)
    \/ \E c \in Handles : Disconnect(c)

\* The chat: connections, frames and history requests on the two rooms.
Spec == Init /\ [][Next]_vars

(* ------------------------- deletion of a room ------------------------- *)

\* A Message.chatroom without the cascade: the messages stay.
CascadeMessagesKeep(rs) == messages

\* Message.chatroom is on_delete=CASCADE: the messages left when the rows of
\* the rooms rs are deleted.
CascadeMessages(rs) == {m \in messages : m.chatroom \notin {r.id : r \in rs}}

\* A ChatRoom row is deleted (the admin site, or the cascade from its book
\* or from one of its users); its messages go with it.  Connections to the
\* room and its group are not told.
DeleteRoom(rid) ==
    /\ ops < MaxOps
    /\ ops' = ops + 1
    /\ RoomExists(rid)
    /\ rooms' = rooms \ {RoomById(rid)}
    /\ messages' = CascadeMessages({RoomById(rid)})
    /\ UNCHANGED <<users, books, favorites, nextFavId, nextRoomId, nextMsgId, clock, conn, nextConn, groups,
                   inbox, pending, task>>
    /\ last' = Last("delete_room", 0, 0, rid, NoData, NoEvent, NoFrame, 204, {}, Delta)

NextDelete ==
    \/ Next
    \/ \E rid \in RoomIdSpace : DeleteRoom(rid)

\* The chat while rooms are being deleted under it.
SpecDelete == Init /\ [][NextDelete]_vars

(* -------------------- deletion of a user or a book -------------------- *)

\* ChatRoom.book is on_delete=CASCADE: the rooms of a deleted book.
RoomsOfBook(b) == {r \in rooms : r.book = b}

\* Book.writer is on_delete=CASCADE: the books of a deleted user.
BooksOfUser(u) == {k \in books : k.writer = u}

\* ChatRoom.buyer and ChatRoom.seller are on_delete=CASCADE: the rooms of a
\* deleted user.
RoomsOfUser(u) == {r \in rooms : r.buyer = u \/ r.seller = u}

\* Message.sender is on_delete=CASCADE: the messages left when user u and
\* the rooms rs are deleted.
CascadeSender(u, rs) == {m \in CascadeMessages(rs) : m.sender # u}

\* A User row is deleted (the admin site): the user's books, the rooms on
\* them, the rooms the user buys or sells in, the messages of those rooms
\* and the messages the user sent, and the favorites of the user and on the
\* user's books go with it.  Open connections are not told.
DeleteUser(u) ==
    /\ ops < MaxOps
    /\ ops' = ops + 1
    /\ u \in users
    /\ LET gone_books == BooksOfUser(u)
           gone_rooms == RoomsOfUser(u) \cup {r \in rooms : r.book \in {k.id : k \in gone_books}}
       IN /\ users' = users \ {u}
          /\ books' = books \ gone_books
          /\ rooms' = rooms \ gone_rooms
          /\ messages' = CascadeSender(u, gone_rooms)
          /\ favorites' = {f \in favorites : f.user # u /\ f.book \notin {k.id : k \in gone_books}}
    /\ UNCHANGED <<nextFavId, nextRoomId, nextMsgId, clock, conn, nextConn, groups,
                   inbox, pending, task>>
    /\ last' = Last("delete_user", 0, u, 0, NoData, NoEvent, NoFrame, 204, {}, Delta)

\* A Book row is deleted (book.delete(), reached from the admin site): its
\* rooms, their messages and its favorites go with it.
DeleteBook(b) ==
    /\ ops < MaxOps
    /\ ops' = ops + 1
    /\ BookExists(b)
    /\ books' = books \ {BookById(b)}
    /\ rooms' = rooms \ RoomsOfBook(b)
    /\ messages' = CascadeMessages(RoomsOfBook(b))
    /\ favorites' = {f \in favorites : f.book # b}
    /\ UNCHANGED <<users, nextFavId, nextRoomId, nextMsgId, clock, conn, nextConn, groups,
                   inbox, pending, task>>
    /\ last' = Last("delete_book", 0, 0, b, NoData, NoEvent, NoFrame, 204, {}, Delta)

NextCascade ==
    \/ NextDelete
    \/ \E u \in Users : DeleteUser(u)
    \/ \E b \in BookIdSpace \ {0} : DeleteBook(b)

\* The chat while rooms, users and books are being deleted under it.
SpecCascade == Init /\ [][NextCascade]_vars

(* ------------------ books/delete/ and favorites (HTTP) ----------------- *)

\* IsOwner.has_object_permission on a Book: the owner is looked up as
\* obj.user, else obj.trip.user; Book has neither.
IsOwner(book, u) ==
    IF "user" \in BookAttrs THEN book.user = u
    ELSE IF "trip" \in BookAttrs THEN book.trip.user = u
    ELSE FALSE

\* BookDeleteView.delete of book b by user u (Anonymous: not logged in).
\* book.delete() takes the book's rooms, their messages and its favorites.
BookDelete(u, b) ==
    /\ u \in Callers
    /\ LET status == IF u = Anonymous THEN 401
                     ELSE IF ~BookExists(b) THEN 404
                     ELSE IF ~IsOwner(BookById(b), u) THEN 403
                     ELSE 204
       IN /\ IF status = 204
             THEN /\ books' = books \ {BookById(b)}
                  /\ rooms' = rooms \ RoomsOfBook(b)
                  /\ messages' = CascadeMessages(RoomsOfBook(b))
                  /\ favorites' = {f \in favorites : f.book # b}
             ELSE UNCHANGED <<books, rooms, messages, favorites>>
          /\ UNCHANGED <<users, nextFavId, nextRoomId, nextMsgId, clock,
                         conn, nextConn, groups, inbox, pending, task, ops>>
          /\ last' = Last("book_delete", 0, u, b, NoData, NoEvent, NoFrame, status, {}, Delta)

\* The Favorite rows of a user on a book.
FavoritesOf(u, b) == {f \in favorites : f.user = u /\ f.book = b}

\* A count of all favorites, of whatever book.
like_count_all(favs, b) == Cardinality(favs)

\* book.favorites.count() on the rows favs
like_count(favs, b) == Cardinality({f \in favs : f.book = b})

\* FavoriteToggleView.post up to Favorite.objects.filter(...).first().
ToggleStart(t, u, b) ==
    /\ u \in users
    /\ task[t].pc = "idle"
    /\ \A t2 \in Tasks : t2 < t => task[t2].pc # "idle"
    /\ LET found == FavoritesOf(u, b)
           res == IF ~BookExists(b)
                  THEN [IdleTask EXCEPT !.pc = "done", !.user = u, !.book = b, !.status = 404]
                  ELSE [IdleTask EXCEPT !.pc = "toggle", !.user = u, !.book = b,
                          !.fav = IF found = {} THEN 0
                                  ELSE (CHOOSE f \in found : TRUE).id]
       IN /\ task' = [task EXCEPT ![t] = res]
          /\ UNCHANGED <<users, books, favorites, nextFavId, rooms, nextRoomId, messages, nextMsgId,
                         clock, conn, nextConn, groups, inbox, pending, ops>>
          /\ last' = Last("toggle", t, u, b, NoData, NoEvent, NoFrame, res.status, {}, Delta)

\* Favorite without unique_together: every insert goes through.
FavoriteNotUnique(u, b) == TRUE

\* Favorite.Meta.unique_together = ("user", "book"): may a row be inserted?
FavoriteUnique(u, b) == FavoritesOf(u, b) = {}

\* The rest of FavoriteToggleView.post: favorite.delete() of the row found
\* (a DELETE by id, which removes nothing when the row is gone), or
\* Favorite.objects.create(), whose IntegrityError is not caught; then
\* book.favorites.count().
ToggleFinish(t) ==
    /\ task[t].pc = "toggle"
    /\ LET me == task[t]
           status == IF me.fav # 0 THEN 200
                     ELSE IF FavoriteUnique(me.user, me.book) THEN 201
                     ELSE 500
       IN /\ favorites' =
                CASE status = 200 -> {f \in favorites : f.id # me.fav}
                  [] status = 201 -> favorites \cup
                                       {[id |-> nextFavId, user |-> me.user, book |-> me.book]}
                  [] OTHER -> favorites
          /\ nextFavId' = IF status = 201 THEN nextFavId + 1 ELSE nextFavId
          /\ task' = [task EXCEPT ![t] =
                        [me EXCEPT !.pc = "done", !.status = status,
                                   !.like_count = IF status = 500 THEN 0
                                                  ELSE like_count(favorites', me.book)]]
          /\ UNCHANGED <<users, books, rooms, nextRoomId, messages, nextMsgId, clock,
                         conn, nextConn, groups, inbox, pending, ops>>
          /\ last' = Last("toggle_finish", t, me.user, me.book, NoData, NoEvent, NoFrame,
                          status, {}, Delta)

NextBooks ==
    \/ \E u \in Users, b \in BookIdSpace \ {0}, data \in PatchBodies : BookUpdate(u, b, data)
    \/ \E u \in Users \cup {Anonymous}, b \in BookIdSpace \ {0} : BookDelete(u, b)
    \/ \E t \in Tasks, u \in Users, b \in BookIdSpace \ {0} : ToggleStart(t, u, b)
    \/ \E t \in Tasks : ToggleFinish(t)

\* The books/ views on the book and the two rooms on it.
SpecBooks == Init /\ [][NextBooks]_vars

(* =============================== claims ================================ *)

MessageById(id) == CHOOSE m \in messages : m.id = id
Stored(id) == \E m \in messages : m.id = id
\* The channels of a room's group whose consumer is running.
Members(rid) == {c \in groups[rid] : Alive(c)}
LastIs(op) == last.op = op
\* The last step was receive() of a message frame with content.
LastMessageFrame ==
    LastIs("receive") /\ MessageType(last.data) = "message"
      /\ strip(last.data.content) # <<>> /\ last.status = 0

(* C1: a message frame with content from a connected participant persists   *)
(* one Message with the connection's room, its user, the trimmed content     *)
(* and is_read = False; the chat_message event is then put on the queue of   *)
(* every running connection of the room's group, the sender's own included;  *)
(* and a connection that handles the event writes a message frame with that  *)
(* content and sender id to its client.                                      *)
C1_MessagePersistedAndBroadcast ==
    /\ LastMessageFrame =>
         /\ Cardinality(last.d.created) = 1
         /\ \A id \in last.d.created :
              /\ Stored(id)
              /\ MessageById(id).chatroom = last.room
              /\ MessageById(id).sender = last.user
              /\ MessageById(id).content = strip(last.data.content)
              /\ MessageById(id).is_read = FALSE
              /\ pending[last.conn].ev.type = "chat_message"
              /\ pending[last.conn].ev.message.id = id
              /\ pending[last.conn].ev.message.content = strip(last.data.content)
              /\ pending[last.conn].ev.message.sender_id = last.user
    /\ (LastIs("group_send") /\ last.ev.type = "chat_message") =>
         /\ last.conn \in last.d.queued
         /\ last.d.queued = Members(last.room)
         /\ \A c \in Members(last.room) : inbox[c][Len(inbox[c])] = last.ev
    /\ (LastIs("dispatch") /\ last.ev.type = "chat_message") =>
         /\ last.frame.type = "message"
         /\ last.frame.message = last.ev.message

\* The other participant's connection has written the sender's message to
\* its client.
C1_Witness ==
    /\ LastIs("dispatch") /\ last.ev.type = "chat_message"
    /\ last.ev.origin # last.conn
    /\ last.user # last.ev.message.sender_id
    /\ last.frame.message.content = <<"h">>
    /\ \E m \in messages : m.id = last.frame.message.id /\ m.sender = last.frame.message.sender_id

(* C2: a broadcast comes after its write.  Every chat_message event, waiting *)
(* to be sent, queued at a connection or just handled, carries the id,       *)
(* content and sender of a Message that is in the store; and when a          *)
(* message_read event is sent, or waits to be sent, every row its            *)
(* mark_messages_as_read selected is already is_read = True.                 *)
InStore(ev) ==
    \E m \in messages : /\ m.id = ev.message.id
                        /\ m.content = ev.message.content
                        /\ m.sender = ev.message.sender_id
AllRead(ids) == \A id \in ids : Stored(id) /\ MessageById(id).is_read
C2_BroadcastAfterPersist ==
    /\ \A c \in Handles :
         /\ pending[c].ev.type = "chat_message" => InStore(pending[c].ev)
         /\ pending[c].ev.type = "message_read" => AllRead(pending[c].affected)
         /\ \A i \in 1 .. Len(inbox[c]) :
              inbox[c][i].type = "chat_message" => InStore(inbox[c][i])
    /\ last.ev.type = "chat_message" => InStore(last.ev)
    /\ (LastIs("dispatch") /\ last.frame.type = "message") =>
         \E m \in messages : /\ m.id = last.frame.message.id
                             /\ m.content = last.frame.message.content
                             /\ m.sender = last.frame.message.sender_id
    /\ (LastIs("group_send") /\ last.ev.type = "message_read") => AllRead(last.wrote)

\* A read receipt is sent for an update that marked a row.
C2_Witness ==
    /\ LastIs("group_send") /\ last.ev.type = "message_read"
    /\ last.wrote # {}
    /\ last.d.queued # {}

(* C3: the read flag only goes from False to True.  No step turns a read     *)
(* message back to unread, and a message is created unread.                  *)
C3_ReadFlagMonotonic ==
    /\ last.d.reverted = {}
    /\ \A id \in last.d.created : Stored(id) /\ ~MessageById(id).is_read
    /\ \A id \in last.d.marked : Stored(id) /\ MessageById(id).is_read

\* A step was taken on a store that held a read message (a read frame, a
\* history request or a new message after the read), and it is still read.
C3_Witness ==
    /\ last.op \in {"receive", "message_list", "connect", "disconnect"}
    /\ \E m \in messages : m.is_read /\ m.id \notin last.d.marked
    /\ \/ LastIs("message_list") /\ last.status = 200
       \/ LastIs("receive") /\ MessageType(last.data) \in {"read", "message"}

(* C4: whoever acts, a message that a step marks read was not sent by the    *)
(* acting user: a read frame or a history request of user U marks no         *)
(* message of U, whatever ids U lists.                                       *)
C4_OwnMessagesNeverMarked ==
    \A id \in last.d.marked : Stored(id) /\ MessageById(id).sender # last.user

\* U listed the id of an own unread message of the room in a read frame, or
\* asked for the room's history, and the message is still unread.
C4_Witness ==
    /\ \/ LastIs("receive") /\ MessageType(last.data) = "read"
       \/ LastIs("message_list") /\ last.status = 200
    /\ \E m \in messages :
         /\ m.sender = last.user /\ m.chatroom = last.room /\ ~m.is_read
         /\ LastIs("receive") => m.id \in last.data.message_ids

(* C5: mark_messages_as_read is idempotent.  On every store the system       *)
(* reaches, for every room, user and id list, a second call with the same    *)
(* arguments returns the store the first call left, with the selected rows   *)
(* read.                                                                     *)
C5_MarkReadIdempotent ==
    \A rid \in RoomIdSpace, u \in Users, ids \in SUBSET MsgIdSpace :
        LET once == mark_messages_as_read(messages, ids, rid, u)
            twice == mark_messages_as_read(once, ids, rid, u)
        IN /\ twice = once
           /\ \A m \in ReadTargets(twice, ids, rid, u) : m.is_read

\* A read frame has marked a message, so a second call finds it read.
C5_Witness ==
    /\ LastIs("receive") /\ MessageType(last.data) = "read"
    /\ last.d.marked # {}
    /\ mark_messages_as_read(messages, last.data.message_ids, last.room, last.user) = messages

(* C6: the unread count of a user is the number of messages that are unread, *)
(* not sent by the user, and in a room the user buys or sells in, each       *)
(* counted once, on the store as it is now.                                  *)
RECURSIVE CountUnread(_, _)
CountUnread(u, ids) ==
    IF ids = {} THEN 0
    ELSE LET id == CHOOSE i \in ids : TRUE
             rows == {m \in messages : m.id = id}
             counts == \E m \in rows : /\ ~m.is_read
                                       /\ m.sender # u
                                       /\ \E r \in rooms : /\ r.id = m.chatroom
                                                           /\ u \in {r.buyer, r.seller}
         IN (IF counts THEN 1 ELSE 0) + CountUnread(u, ids \ {id})
C6_UnreadCountExact ==
    \A u \in Users : UnreadCount(u) = CountUnread(u, {m.id : m \in messages})

\* The seller has unread messages in two rooms, and none of the buyers
\* counts the own message.
C6_Witness ==
    /\ UnreadCount(1) = 2
    /\ \E m1, m2 \in messages : m1.chatroom # m2.chatroom
    /\ UnreadCount(2) = 0 /\ UnreadCount(3) = 0

(* C7: two rooms/create/ requests of the same buyer for the same book, none  *)
(* of them for a missing book or the buyer's own book, in every             *)
(* interleaving of their get and create steps: once both have answered,      *)
(* neither has failed, both answer the same room id, and that room is the    *)
(* only row for the pair.  At no time are there two rows for a pair.         *)
C7_GetOrCreateOneRoom ==
    /\ \A u \in Users, b \in BookIdSpace : Cardinality(Matching(rooms, b, u)) <= 1
    /\ \A t1, t2 \in Tasks :
         ( /\ t1 # t2
           /\ task[t1].pc = "done" /\ task[t2].pc = "done"
           /\ task[t1].user = task[t2].user /\ task[t1].book = task[t2].book
           /\ task[t1].status \notin {400, 404} )
         => /\ task[t1].status \in {200, 201} /\ task[t2].status \in {200, 201}
            /\ ~(task[t1].status = 201 /\ task[t2].status = 201)
            /\ task[t1].room = task[t2].room
            /\ {r.id : r \in Matching(rooms, task[t1].book, task[t1].user)} = {task[t1].room}

\* Both requests found no room; one inserted it, and the other's insert was
\* refused and its second get() answered the winner's room.
C7_Witness ==
    /\ LastIs("post_create") /\ last.status = 200
    /\ \E t1, t2 \in Tasks :
         /\ task[t1].status = 201 /\ task[t2].status = 200
         /\ task[t1].user = task[t2].user /\ task[t1].book = task[t2].book
         /\ task[t1].room = task[t2].room

C9_RefusedHandshake ==
    ( /\ LastIs("connect")
      /\ \/ last.user = Anonymous
         \/ ~\E r \in rooms : r.id = last.room
         \/ \E r \in rooms : r.id = last.room /\ last.user \notin {r.buyer, r.seller} )
    => /\ conn[last.conn].state = "Closed"
       /\ last.status = 403
       /\ last.d.joined = {} /\ last.d.left = {} /\ last.d.queued = {}
       /\ pending[last.conn] = NoPending
       /\ inbox[last.conn] = <<>>
       /\ \A r \in RoomIdSpace : last.conn \notin groups[r]

\* A user who is in another room is refused on a room whose group has a
\* member.
C9_Witness ==
    /\ LastIs("connect") /\ last.status = 403
    /\ last.user # Anonymous
    /\ \E r \in rooms : r.id = last.room /\ last.user \notin {r.buyer, r.seller}
    /\ groups[last.room] # {}

(* C10: a message frame whose content is empty or only whitespace changes    *)
(* nothing: no Message, no change of a room's updated_at, no event sent or   *)
(* left to be sent, no error, and the connection stays Active.               *)
Blank(s) == \A i \in 1 .. Len(s) : s[i] = " "
C10_BlankMessageDropped ==
    (LastIs("receive") /\ last.data.type \in {"message", "absent"} /\ Blank(last.data.content))
    => /\ last.d = NoDelta
       /\ last.status = 0
       /\ last.ev = NoEvent
       /\ conn[last.conn].state = "Active"
       /\ pending[last.conn] = NoPending

\* A frame of one space was received on a connection of a room that has a
\* message.
C10_Witness ==
    /\ LastIs("receive") /\ last.data.type = "message"
    /\ last.data.content = <<" ">>
    /\ \E m \in messages : m.chatroom = last.room

(* C11: when participant U fetches the history of a room, every message of   *)
(* that room not sent by U is read afterwards, so U's unread count drops by  *)
(* exactly the messages marked and counts none of that room; the unread      *)
(* count of every other user is unchanged, and no message of another room    *)
(* and no message of U changes.                                              *)
C11_OpenRoomMarksRead ==
    (LastIs("message_list") /\ last.status = 200) =>
        /\ \A m \in messages :
             (m.chatroom = last.room /\ m.sender # last.user) => m.is_read
        /\ \A id \in last.d.marked :
             /\ Stored(id)
             /\ MessageById(id).chatroom = last.room
             /\ MessageById(id).sender # last.user
        /\ last.d.unread[last.user] = 0 - Cardinality(last.d.marked)
        /\ \A u \in Users \ {last.user} : last.d.unread[u] = 0
        /\ last.d.created = {} /\ last.d.removed = {}
        /\ last.d.reverted = {} /\ last.d.edited = {}

\* The seller opened a room that held an unread message of the buyer.
C11_Witness ==
    /\ LastIs("message_list") /\ last.status = 200
    /\ last.d.marked # {}
    /\ last.d.unread[last.user] < 0
    /\ UnreadCount(last.user) = 0

(* C12: once the session of a connection has ended, by a close of the       *)
(* client or by an error in one of its handlers, its channel is in no        *)
(* room's group.                                                             *)
C12_NoStaleHandle ==
    \A c \in Handles :
        conn[c].state \in {"Closed", "Crashed"} => \A r \in RoomIdSpace : c \notin groups[r]

(* C13: a read event is handed to every connection of the room as a read     *)
(* receipt with the acting user's id, and the connection that handles it     *)
(* stays Active.                                                             *)
C13_ReadReceiptDelivered ==
    (LastIs("dispatch") /\ last.ev.type = "message_read") =>
        /\ last.frame.type = "read"
        /\ last.frame.user = last.ev.user_id
        /\ conn[last.conn].state = "Active"

(* C14: when save_message fails because the room of the connection is gone, *)
(* the connection stays Active and nothing is surfaced as a failure of the   *)
(* connection.                                                               *)
C14_PersistenceFailureKeepsActive ==
    ( /\ LastIs("receive") /\ last.data.type \in {"message", "absent"}
      /\ ~Blank(last.data.content)
      /\ ~RoomExists(last.room) )
    => /\ conn[last.conn].state = "Active"
       /\ last.status = 0

(* C15: rooms/create/ answers 404 when the book does not exist and 400 when  *)
(* the caller is the book's writer; such a request returns no room and       *)
(* leaves the rooms as they were, and no room has its buyer as seller.       *)
C15_CreateRejected ==
    /\ \A r \in rooms : r.buyer # r.seller
    /\ \A t \in Tasks :
         (task[t].pc # "idle" /\ task[t].book # 0) =>
            /\ (~\E k \in books : k.id = task[t].book) =>
                  task[t].pc = "done" /\ task[t].status = 404 /\ task[t].room = 0
            /\ (\E k \in books : k.id = task[t].book /\ k.writer = task[t].user) =>
                  task[t].pc = "done" /\ task[t].status = 400 /\ task[t].room = 0
    /\ (LastIs("post") /\ last.status \in {400, 404}) =>
         /\ last.d.rooms = {}
         /\ last.room = 0
         /\ \A r \in rooms : r.id < nextRoomId

\* The writer asked for a room on the own book while a buyer's room on it
\* exists, after a request for a book that does not exist.
C15_Witness ==
    /\ LastIs("post") /\ last.status = 400
    /\ task[last.conn].book # 0
    /\ \E k \in books : k.id = task[last.conn].book /\ k.writer = last.user
    /\ rooms # {}
    /\ \E t \in Tasks : task[t].status = 404

(* C16: no two rooms have the same book and buyer.  An insert for a pair     *)
(* that has a room is refused and changes no row, an insert that goes        *)
(* through adds one row, and another buyer has a room of their own on the    *)
(* same book.                                                                *)
C16_OneRoomPerPair ==
    /\ \A r1, r2 \in rooms : (r1.book = r2.book /\ r1.buyer = r2.buyer) => r1 = r2
    /\ (LastIs("post_create") /\ last.status # 201) =>
         /\ last.d.rooms = {}
         /\ \E r \in rooms : r.book = task[last.conn].book /\ r.buyer = last.user
    /\ (LastIs("post_create") /\ last.status = 201) =>
         /\ last.d.rooms = {last.room}
         /\ \E r \in rooms : /\ r.id = last.room
                             /\ r.book = task[last.conn].book /\ r.buyer = last.user

\* An insert was refused for a pair that has a room, while another buyer has
\* a room on the same book.
C16_Witness ==
    /\ LastIs("post_create") /\ last.status = 200
    /\ \E r1, r2 \in rooms :
         /\ r1.book = r2.book /\ r1.buyer # r2.buyer
         /\ r1.buyer = last.user /\ r1.id = last.room

(* C17: one rooms/create/ request after the other.  A request for a pair     *)
(* that has no room goes on to create it, the created room has the caller    *)
(* as buyer and the book's writer as seller and is answered 201; a request   *)
(* for a pair that has a room answers 200 with that room's id and writes     *)
(* nothing.                                                                  *)
C17_SequentialGetOrCreate ==
    /\ (LastIs("post") /\ last.status \notin {400, 404}) =>
         LET t == last.conn
             have == {r \in rooms : r.book = task[t].book /\ r.buyer = last.user}
         IN /\ last.d.rooms = {}
            /\ have = {} => task[t].pc = "create"
            /\ have # {} => /\ task[t].pc = "done" /\ last.status = 200
                            /\ have = {r \in rooms : r.id = last.room}
    /\ (LastIs("post_create") /\ last.status = 201) =>
         /\ last.d.rooms = {last.room}
         /\ \E r \in rooms :
              /\ r.id = last.room
              /\ r.book = task[last.conn].book
              /\ r.buyer = last.user
              /\ \E k \in books : k.id = r.book /\ k.writer = r.seller
         /\ Cardinality(rooms) = nextRoomId - 1

\* A second request for the pair of a finished 201 request was answered 200
\* by its first get().
C17_Witness ==
    /\ LastIs("post") /\ last.status = 200
    /\ \E t \in Tasks :
         /\ t # last.conn
         /\ task[t].status = 201
         /\ task[t].user = last.user /\ task[t].book = task[last.conn].book
         /\ task[t].room = last.room

C19_ParticipantsFixed ==
    /\ \A r \in rooms : \E k \in books : k.id = r.book /\ k.writer = r.seller
    /\ LastIs("post") => last.d.rooms = {}
    /\ LastIs("book_update") => last.d.rooms = {}
    /\ (LastIs("post_create") /\ last.status # 201) => last.d.rooms = {}
    /\ (LastIs("post_create") /\ last.status = 201) =>
         /\ last.d.rooms = {last.room}
         /\ Cardinality(rooms) = nextRoomId - 1
         /\ \E r \in rooms : /\ r.id = last.room
                             /\ r.buyer = last.user
                             /\ r.seller # r.buyer
                             /\ r.created_at = r.updated_at

\* The book's writer asked for an update that names another writer, after a
\* room on the book was created and asked for again.
C19_Witness ==
    /\ LastIs("book_update") /\ last.user = 1 /\ last.status # 404
    /\ \E t1, t2 \in Tasks :
         /\ task[t1].status = 201 /\ task[t2].status = 200
         /\ task[t1].room = task[t2].room
    /\ \E r \in rooms : r.seller = 1 /\ r.buyer # 1

(* C20: the room list of a user holds exactly the rooms the user buys or    *)
(* sells in, each once, latest updated_at first, and names for each room     *)
(* the participant who is not the user.                                      *)
C20_RoomListExact ==
    \A u \in Users :
        LET l == ChatRoomList(u)
        IN /\ {l[i].id : i \in 1 .. Len(l)} = {r.id : r \in {x \in rooms : u \in {x.buyer, x.seller}}}
           /\ Len(l) = Cardinality({x \in rooms : u \in {x.buyer, x.seller}})
           /\ \A i, j \in 1 .. Len(l) : i < j => l[i].updated_at >= l[j].updated_at
           /\ \A i \in 1 .. Len(l) :
                \E r \in rooms : /\ r.id = l[i].id
                                 /\ r.updated_at = l[i].updated_at
                                 /\ l[i].other_user # u
                                 /\ {l[i].other_user, u} = {r.buyer, r.seller}

\* A message in the older room has moved it to the head of the seller's
\* list; each buyer's list holds the one room of that buyer.
C20_Witness ==
    /\ Len(ChatRoomList(1)) = 2
    /\ ChatRoomList(1)[1].id = 1 /\ ChatRoomList(1)[1].other_user = 2
    /\ ChatRoomList(1)[2].id = 2 /\ ChatRoomList(1)[2].other_user = 3
    /\ Len(ChatRoomList(2)) = 1 /\ ChatRoomList(2)[1].other_user = 1
    /\ Len(ChatRoomList(3)) = 1 /\ ChatRoomList(3)[1].id = 2
    /\ \E m \in messages : m.chatroom = 1

(* C21: a request for the message history of a room by a user who is        *)
(* neither its buyer nor its seller is answered 403, a request for a room    *)
(* that does not exist is answered 404, and neither changes any message.     *)
C21_HistoryRejected ==
    LastIs("message_list") =>
        /\ (~\E r \in rooms : r.id = last.room) =>
              last.status = 404 /\ last.d = NoDelta
        /\ (\E r \in rooms : r.id = last.room /\ last.user \notin {r.buyer, r.seller}) =>
              last.status = 403 /\ last.d = NoDelta
        /\ last.status \in {403, 404} => last.d.marked = {}

\* A buyer of another room asked for the history of a room that holds an
\* unread message, and the message is still unread.
C21_Witness ==
    /\ LastIs("message_list") /\ last.status = 403
    /\ \E m \in messages : m.chatroom = last.room /\ ~m.is_read /\ m.sender # last.user

(* C22: a PATCH of a book by its writer is answered 200 and the title sent   *)
(* is the book's title afterwards; a PATCH by another user is refused and    *)
(* leaves the book as it was.                                                *)
C22_WriterUpdatesBook ==
    LastIs("book_update") =>
        \A k \in books :
            k.id = last.room =>
               /\ k.writer = last.user =>
                     last.status = 200 /\ k.title = last.data.content
               /\ k.writer # last.user =>
                     last.status \in {403, 404} /\ last.d.books = {}

(* C23: a DELETE of a book by its writer is answered 204 and the book is     *)
(* gone; a DELETE by another user or by a caller who is not logged in is     *)
(* refused and the book is still there.                                      *)
C23_WriterDeletesBook ==
    LastIs("book_delete") =>
        /\ \A k \in InitBooks :
              (k.id = last.room /\ k.writer = last.user) =>
                   last.status = 204 /\ ~\E x \in books : x.id = k.id
        /\ \A k \in books :
              (k.id = last.room /\ k.writer # last.user) =>
                   last.status \in {401, 403, 404} /\ last.d.books = {}

(* C24: the favorite toggle alternates: a toggle that finds no favorite of   *)
(* the user on the book creates exactly one and answers 201, a toggle that   *)
(* finds one removes it and answers 200, the like_count answered is the      *)
(* number of favorites on the book after the toggle, and no user ever has    *)
(* two favorites on one book.                                                *)
C24_ToggleAlternates ==
    /\ \A u \in Users, b \in BookIdSpace : Cardinality(FavoritesOf(u, b)) <= 1
    /\ (LastIs("toggle_finish") /\ BookExists(last.room)) =>
          LET me == task[last.conn]
              mine == {f \in favorites : f.user = last.user /\ f.book = last.room}
          IN /\ me.fav = 0 =>
                   /\ last.status = 201
                   /\ Cardinality(last.d.liked) = 1 /\ last.d.unliked = {}
                   /\ Cardinality(mine) = 1
             /\ me.fav # 0 =>
                   /\ last.status = 200
                   /\ last.d.liked = {} /\ last.d.unliked \subseteq {me.fav}
                   /\ mine = {}
             /\ me.like_count = Cardinality({f \in favorites : f.book = last.room})

(* C25: when save_message fails on a message frame, the frame produces no    *)
(* broadcast: no message is stored, no event is handed to the group, and no  *)
(* connection other than the sending one is changed or gets anything queued. *)
C25_FailedSaveNoBroadcast ==
    ( /\ LastIs("receive") /\ last.data.type \in {"message", "absent"}
      /\ ~Blank(last.data.content)
      /\ ~\E r \in rooms : r.id = last.room )
    => /\ last.d.created = {}
       /\ last.d.queued = {}
       /\ pending[last.conn].ev = NoEvent
       /\ \A c \in Handles : pending[c].ev.type = "chat_message" =>
                                  pending[c].ev.message.id < nextMsgId
       /\ \A c \in Handles : \A i \in 1..Len(inbox[c]) :
             inbox[c][i].type = "chat_message" => inbox[c][i].message.id < nextMsgId

C25_Witness ==
    /\ LastIs("receive") /\ last.data.type \in {"message", "absent"}
    /\ ~Blank(last.data.content)
    /\ ~\E r \in rooms : r.id = last.room
    /\ conn[last.conn].state = "Crashed"
    /\ \E c \in groups[last.room] \ {last.conn} : conn[c].state = "Active"

(* C26: the message ids a read-receipt event carries are exactly the ids of  *)
(* the messages its mark_messages_as_read call affected: messages of the     *)
(* room, among the ids of the frame, not sent by the acting user.            *)
C26_ReceiptCarriesAffectedIds ==
    /\ (LastIs("group_send") /\ last.ev.type = "message_read") =>
          last.ev.message_ids = last.wrote
    /\ \A c \in Handles :
          pending[c].ev.type = "message_read" =>
             pending[c].ev.message_ids = pending[c].affected

(* C27: a read frame on a connection of room R changes nothing but the       *)
(* is_read flag of messages of R that the frame lists and the acting user    *)
(* did not send: messages of other rooms, listed or not, unlisted messages,  *)
(* contents, senders, created_at stamps and all rooms stay as they were.     *)
C27_ReadFrameEffect ==
    (LastIs("receive") /\ last.data.type = "read") =>
        /\ \A id \in last.d.marked :
              /\ id \in last.data.message_ids
              /\ \E m \in messages : /\ m.id = id
                                     /\ m.chatroom = last.room
                                     /\ m.sender # last.user
        /\ last.d.reverted = {}
        /\ last.d.edited = {}
        /\ last.d.created = {}
        /\ last.d.removed = {}
        /\ last.d.rooms = {}

\* A read frame listed an unread message of another room, sent by someone
\* else, and the message is still unread.
C27_Witness ==
    /\ LastIs("receive") /\ last.data.type = "read"
    /\ \E m \in messages : /\ m.id \in last.data.message_ids
                           /\ m.chatroom # last.room
                           /\ m.sender # last.user
                           /\ ~m.is_read

\* A read frame marked a listed message of its room.
C27_WitnessMarked ==
    /\ LastIs("receive") /\ last.data.type = "read"
    /\ last.d.marked # {}

(* C28: a frame whose type is none of message, read and typing is dropped:   *)
(* nothing is stored or changed, nothing is sent or left to be sent, no      *)
(* error is raised and the connection stays Active.                          *)
C28_UnknownKindDropped ==
    (LastIs("receive") /\ last.data.type \notin {"absent", "message", "read", "typing"})
    => /\ last.d = NoDelta
       /\ last.status = 0
       /\ last.ev = NoEvent
       /\ conn[last.conn].state = "Active"
       /\ pending[last.conn] = NoPending

\* A ping frame was received on a connection whose room has a second running
\* connection in its group.
C28_Witness ==
    /\ LastIs("receive") /\ last.data.type = "ping"
    /\ \E c \in groups[last.room] \ {last.conn} : conn[c].state = "Active"

(* C29: the message history of a room lists the room's messages, each once,  *)
(* in ascending order of created_at, the stamp save_message gave them,       *)
(* whatever the order in which their chat_message events were sent to the    *)
(* connections.                                                              *)
C29_HistoryAscending ==
    \A rid \in RoomIdSpace :
        LET h == MessageHistory(rid)
        IN /\ {h[i] : i \in 1 .. Len(h)} = {m \in messages : m.chatroom = rid}
           /\ Len(h) = Cardinality({m \in messages : m.chatroom = rid})
           /\ \A i, j \in 1 .. Len(h) : i < j => h[i].created_at <= h[j].created_at

\* Two participants sent at the same time: a connection has the event of the
\* later message queued before the event of the earlier one, and the history
\* lists the earlier message first.
C29_Witness ==
    \E c \in Handles : \E i, j \in 1 .. Len(inbox[c]) :
        /\ i < j
        /\ inbox[c][i].type = "chat_message" /\ inbox[c][j].type = "chat_message"
        /\ inbox[c][i].message.created_at > inbox[c][j].message.created_at
        /\ inbox[c][i].message.sender_id # inbox[c][j].message.sender_id
        /\ Len(MessageHistory(conn[c].room)) = 2
        /\ MessageHistory(conn[c].room)[1].id = inbox[c][j].message.id

\* A history request was answered for a room with two messages.
C29_WitnessFetched ==
    /\ LastIs("message_list") /\ last.status = 200
    /\ Len(MessageHistory(last.room)) = 2

(* C30: every message frame that stores a message refreshes updated_at of    *)
(* its room and of no other room, so that right afterwards the room is the   *)
(* first entry of the room list of its buyer and of its seller; a typing or  *)
(* read frame changes no room.                                               *)
C30_SaveRefreshesRoom ==
    /\ (LastIs("receive") /\ last.d.created # {}) =>
          /\ last.d.rooms = {last.room}
          /\ \A r \in rooms :
                r.id = last.room =>
                   /\ \A o \in rooms : o.id # r.id => o.updated_at < r.updated_at
                   /\ ChatRoomList(r.buyer)[1].id = r.id
                   /\ ChatRoomList(r.seller)[1].id = r.id
    /\ (LastIs("receive") /\ last.data.type \in {"typing", "read"}) =>
          last.d.rooms = {}

\* A message stored in the older room of the seller has put that room at the
\* head of the seller's list of two rooms.
C30_Witness ==
    /\ LastIs("receive") /\ last.d.created # {}
    /\ last.room = 1
    /\ Len(ChatRoomList(1)) = 2
    /\ ChatRoomList(1)[1].id = 1
    /\ ChatRoomList(2)[1].id = 1

\* A read frame that marked a message left the rooms alone.
C30_WitnessRead ==
    /\ LastIs("receive") /\ last.data.type = "read"
    /\ last.d.marked # {} /\ last.d.rooms = {}

(* C31: leaving a group is idempotent.  The disconnect() of a handshake that *)
(* was refused, whose channel never joined, changes no group and raises no   *)
(* error; after a disconnect the channel is in no group, and discarding it   *)
(* again changes nothing.                                                    *)
C31_LeaveIdempotent ==
    /\ (LastIs("connect") /\ last.status = 403) =>
          /\ last.d.left = {} /\ last.d.joined = {}
          /\ conn[last.conn].state = "Closed"
    /\ LastIs("disconnect") =>
          /\ last.d.left = {<<last.room, last.conn>>}
          /\ conn[last.conn].state = "Closed"
          /\ \A r \in RoomIdSpace : last.conn \notin groups[r]
    /\ \A c \in Handles :
          conn[c].state = "Closed" =>
             \A r \in RoomIdSpace :
                [groups EXCEPT ![r] = (@ \ {c}) \ {c}] = groups

\* The handshake of a user who may not enter was refused, and its
\* disconnect() ran, while the room's group had a member that is still there.
C31_Witness ==
    /\ LastIs("connect") /\ last.status = 403
    /\ \E c \in groups[last.room] : c # last.conn /\ conn[c].state = "Active"

\* A connection left a group in which another connection stays.
C31_WitnessLeft ==
    /\ LastIs("disconnect")
    /\ \E c \in groups[last.room] : conn[c].state = "Active"

(* C32: rooms are independent.  A step taken on a connection of room R1 (its *)
(* handshake, a frame, a group_send, the handling of an event, its           *)
(* disconnect) queues events only at channels of R1's group, which are       *)
(* connections to R1, and changes only R1's group, R1's messages and R1's    *)
(* updated_at; a connection to another room gets nothing and the other room  *)
(* stays as it was.                                                          *)
C32_RoomsIndependent ==
    /\ (last.op \in {"connect", "receive", "group_send", "dispatch", "disconnect"}) =>
          /\ \A c \in last.d.queued :
                c \in groups[last.room] /\ conn[c].room = last.room
          /\ last.d.rooms \subseteq {last.room}
          /\ \A q \in last.d.joined \cup last.d.left : q[1] = last.room
          /\ \A id \in last.d.created \cup last.d.marked :
                \E m \in messages : m.id = id /\ m.chatroom = last.room
          /\ last.d.removed = {} /\ last.d.edited = {}
    /\ \A c \in Handles : \A i \in 1 .. Len(inbox[c]) :
          /\ conn[inbox[c][i].origin].state = "Active" =>
                conn[inbox[c][i].origin].room = conn[c].room
          /\ inbox[c][i].type = "chat_message" =>
                \E m \in messages : /\ m.id = inbox[c][i].message.id
                                    /\ m.chatroom = conn[c].room

\* A chat_message event was sent to the group of one room while a connection
\* to the other room was running, and that connection got nothing.
C32_Witness ==
    /\ LastIs("group_send") /\ last.ev.type = "chat_message"
    /\ last.d.queued # {}
    /\ \E c \in Handles : /\ conn[c].state = "Active"
                          /\ conn[c].room # last.room
                          /\ c \notin last.d.queued
                          /\ inbox[c] = <<>>

(* C33: a stored message is removed only together with its room.  The       *)
(* deletion of a room removes all its messages, every stored message has     *)
(* its room, and no step, the deletion of the message's sender included,     *)
(* removes a message whose room is still there after the step.               *)
C33_MessageRemovedOnlyWithRoom ==
    /\ last.d.lost = {}
    /\ \A m \in messages : \E r \in rooms : r.id = m.chatroom
    /\ last.d.removed # {} =>
          /\ last.op \in {"delete_room", "delete_user", "delete_book"}
          /\ last.d.rooms # {}
    /\ LastIs("delete_room") => \A m \in messages : m.chatroom # last.room

\* The sender of a stored message was deleted: the message went, and so did
\* its room, while the other room is still there.
C33_Witness ==
    /\ LastIs("delete_user")
    /\ last.d.removed # {}
    /\ last.d.rooms # {}
    /\ rooms # {}

\* A user was deleted and a message of another room, sent by someone else,
\* is still stored.
C33_WitnessKept ==
    /\ LastIs("delete_user")
    /\ last.d.rooms # {}
    /\ messages # {}

(* C34: a room is never deleted as a side effect of another operation.  A    *)
(* step that is not the deletion of the room itself, such as the deletion of *)
(* its book or of one of its participants, leaves every room and every       *)
(* message stored.                                                           *)
C34_RoomNeverAutoDeleted ==
    (last.op # "delete_room") =>
        /\ \A id \in last.d.rooms : \E r \in rooms : r.id = id
        /\ last.d.removed = {}

(* C35: a delivery that fails on one channel does not keep the event from    *)
(* the other channels of the group and raises nothing on them, and the       *)
(* failing channel is taken out of the room's group: a broadcast reaches     *)
(* every running channel of the group, and a channel whose delivery has      *)
(* failed is in the group no more.                                           *)
C35_FailedDeliveryIsolated ==
    /\ LastIs("group_send") =>
          \A c \in groups[last.room] : conn[c].state = "Active" => c \in last.d.queued
    /\ (LastIs("dispatch") /\ last.status = 500) =>
          /\ last.d.queued = {} /\ last.d.created = {} /\ last.d.marked = {}
          /\ \A c \in Handles \ {last.conn} :
                (inbox[c] # <<>> /\ Head(inbox[c]) = last.ev) => conn[c].state = "Active"
          /\ last.conn \notin groups[last.room]

(* C36: every channel in the group of a room is the connection of a logged   *)
(* in user who is the buyer or the seller of that room, made for that room;  *)
(* no handshake, frame, event or disconnect puts the connection of anyone    *)
(* else into a group.                                                        *)
C36_MembersAreParticipants ==
    \A rid \in RoomIdSpace : \A c \in groups[rid] :
        /\ conn[c].state \in {"Active", "Crashed"}
        /\ conn[c].room = rid
        /\ conn[c].user # Anonymous
        /\ \E r \in rooms : r.id = rid /\ conn[c].user \in {r.buyer, r.seller}

\* A participant is in the group of the room, and the handshake of the buyer
\* of the other room for this room has just been refused: the group holds
\* the participant's channel and nothing else.
C36_Witness ==
    /\ LastIs("connect") /\ last.status = 403
    /\ last.user \in Users
    /\ \E r \in rooms : /\ r.id = last.room
                        /\ last.user \notin {r.buyer, r.seller}
                        /\ \E c \in Handles : /\ groups[last.room] = {c}
                                              /\ c # last.conn
                                              /\ conn[c].state = "Active"
                                              /\ conn[c].user \in {r.buyer, r.seller}

(* C37: for every user, the unread counts of the entries of the user's room  *)
(* list add up to the user's total unread count: no message is counted in    *)
(* two rooms and no unread message sent to the user is missing from either.  *)
RECURSIVE SumUnread(_, _)
SumUnread(l, n) == IF n = 0 THEN 0 ELSE l[n].unread_count + SumUnread(l, n - 1)
C37_UnreadSumsAgree ==
    \A u \in Users :
        /\ SumUnread(ChatRoomList(u), Len(ChatRoomList(u))) = UnreadCount(u)
        /\ UnreadCount(u) =
              Cardinality({m \in messages :
                              /\ ~m.is_read /\ m.sender # u
                              /\ \E r \in rooms : r.id = m.chatroom /\ u \in {r.buyer, r.seller}})

\* Each buyer has written to the seller: the seller's list has two rooms
\* with one unread message each, and the seller's total is 2.
C37_Witness ==
    /\ LastIs("receive")
    /\ Len(ChatRoomList(1)) = 2
    /\ ChatRoomList(1)[1].unread_count = 1 /\ ChatRoomList(1)[2].unread_count = 1
    /\ UnreadCount(1) = 2

\* A user has sent a message that the other participant has not read: it
\* counts for the other participant, in the room's entry and in the total,
\* and not for the sender.
C37_WitnessOwn ==
    \E m \in messages : \E r \in rooms :
        /\ r.id = m.chatroom /\ ~m.is_read /\ m.sender = r.seller
        /\ UnreadCount(r.seller) = 0
        /\ UnreadCount(r.buyer) = 1
        /\ ChatRoomList(r.buyer)[1].unread_count = 1

(* C38: a message stored through a connection has the connection's user as   *)
(* sender and the connection's room as room, whatever sender or room the     *)
(* frame names; so the sender of every stored message is the buyer or the    *)
(* seller of the message's room.                                             *)
C38_SenderIsConnectionUser ==
    /\ \A m \in messages :
          \E r \in rooms : r.id = m.chatroom /\ m.sender \in {r.buyer, r.seller}
    /\ (LastIs("receive") /\ last.d.created # {}) =>
          /\ conn[last.conn].user = last.user /\ conn[last.conn].room = last.room
          /\ \A id \in last.d.created :
                \E m \in messages : /\ m.id = id
                                    /\ m.sender = last.user
                                    /\ m.chatroom = last.room
          /\ pending[last.conn].ev.message.sender_id = last.user

\* A frame that names user 3 as sender and room 2 as room was received on
\* another user's connection to room 1, and its message is stored under that
\* user in room 1.
C38_Witness ==
    /\ LastIs("receive") /\ last.d.created # {}
    /\ "sender_id" \in DOMAIN last.data
    /\ last.data.sender_id # last.user
    /\ last.data.chatroom_id # last.room
    /\ \E m \in messages : /\ m.id \in last.d.created
                           /\ m.sender = last.user /\ m.chatroom = last.room

====
